---- MODULE Spec2Model ----
(***************************************************************************)
(* examples/boost/foo.cpp: print argv[0], then boost::filesystem::absolute *)
(* of every further argument, one per line.                                *)
(*                                                                         *)
(* A string (an argument, a path, a printed line) is a sequence of units:  *)
(* the directory separator "/", the file names ".", "..", "a", ... and one *)
(* unit that stands for a byte sequence the path's converting constructor  *)
(* cannot decode.  Paths are the generic (POSIX) format.                   *)
(***************************************************************************)
EXTENDS Integers, Sequences, FiniteSets, TLC

VARIABLES argv, cwd, cwdOk, pc, i, out, calls, exitCode

vars == <<argv, cwd, cwdOk, pc, i, out, calls, exitCode>>

\* ------------------------------------------------------------------ bounds
\* longest argument of the exhaustive single-argument runs, in units
MaxLen == 3
\* most arguments after argv[0] in the multi-argument runs
MaxArgs == 2

\* ------------------------------------------------------------------ strings
Sep == "/"
BadUnit == "0xFF"
Units == {Sep, ".", "..", "a", BadUnit}

SeqsUpTo(S, n) == UNION {[1..k -> S] : k \in 0..n}

IsPrefix(s, t) == Len(s) <= Len(t) /\ SubSeq(t, 1, Len(s)) = s

\* index of the first separator of p at or after k, Len(p)+1 when none
NextSep(p, k) ==
  LET S == {j \in k..Len(p) : p[j] = Sep}
  IN  IF S = {} THEN Len(p) + 1 ELSE CHOOSE j \in S : \A m \in S : j <= m

\* index of the first non-separator of p at or after k, Len(p)+1 when none
NextNonSep(p, k) ==
  LET S == {j \in k..Len(p) : p[j] # Sep}
  IN  IF S = {} THEN Len(p) + 1 ELSE CHOOSE j \in S : \A m \in S : j <= m

\* ------------------------------------------------- boost::filesystem::path
\* path::root_name(): "//" alone, or "//name" up to the next separator;
\* three or more leading separators are a root directory, not a root name.
RootName(p) ==
  IF Len(p) >= 2 /\ p[1] = Sep /\ p[2] = Sep
  THEN IF Len(p) = 2 THEN p
       ELSE IF p[3] = Sep THEN <<>>
       ELSE SubSeq(p, 1, NextSep(p, 3) - 1)
  ELSE <<>>

\* path::root_directory(): the separator that follows the root name (if any)
RootDirectory(p) ==
  LET n == Len(RootName(p))
  IN  IF Len(p) > n /\ p[n + 1] = Sep THEN <<Sep>> ELSE <<>>

\* path::relative_path(): what follows root name, root directory and the
\* separators after them
RelativePath(p) == SubSeq(p, NextNonSep(p, Len(RootName(p)) + 1), Len(p))

\* path::is_absolute(), POSIX: has_root_directory()
IsAbsolute(p) == RootDirectory(p) # <<>>

\* path::operator/: a separator is inserted unless the right side is empty
\* or begins with one, or the left side is empty or ends with one
PathAppend(lhs, rhs) ==
  IF rhs = <<>> THEN lhs
  ELSE IF rhs[1] # Sep /\ lhs # <<>> /\ lhs[Len(lhs)] # Sep
       THEN lhs \o <<Sep>> \o rhs
       ELSE lhs \o rhs

\* the converting constructor path{argv[i]} throws when the narrow string
\* cannot be converted to the path's native encoding
PathRejects(t) == \E k \in 1..Len(t) : t[k] = BadUnit

\* path{argv[i]}: the units are stored unchanged
path(t) == t

\* path::string(): the stored units
string(p) == p

\* mutant: every path is taken relative to base, a rooted one too
absoluteRebases(p, base) == PathAppend(base, RelativePath(p))

\* mutant: the base is forgotten, a non-empty path is returned as it is
absoluteKeepsRelative(p, base) == IF p = <<>> THEN base ELSE p

\* mutant: the result is normalized, a leading "." segment is dropped
absoluteDropsDot(p, base) ==
  IF p = <<>> \/ p = <<".">> THEN base
  ELSE IF IsPrefix(<<".", Sep>>, p)
       THEN PathAppend(base, SubSeq(p, 3, Len(p)))
       ELSE IF p[1] = Sep THEN p ELSE PathAppend(base, p)

\* mutant: base / p without looking at p's root
absoluteAlwaysJoin(p, base) == PathAppend(base, p)

\* boost::filesystem::absolute(p, base), base an absolute path
absolute(p, base) ==
  IF p = <<>> THEN base
  ELSE IF RootName(p) # <<>>
       THEN IF RootDirectory(p) = <<>>
            THEN PathAppend(PathAppend(PathAppend(RootName(p),
                     RootDirectory(base)), RelativePath(base)), RelativePath(p))
            ELSE p
       ELSE IF RootDirectory(p) # <<>>
            THEN IF RootName(base) = <<>> THEN p
                 ELSE PathAppend(RootName(base), p)
            ELSE PathAppend(base, p)

\* mutant: the empty path is an error too
ResolveThrowsOnEmpty(t, ok) == PathRejects(t) \/ ~ok \/ t = <<>>

\* fs::absolute(path{t}) throws: the constructor rejects t, or current_path(),
\* the default base argument, cannot determine the working directory
ResolveThrows(t, ok) == PathRejects(t) \/ ~ok

\* ------------------------------------------------------------------ inputs
ProgTokens == {<<"foo">>, <<".", Sep, "foo">>}

SampleTokens ==
  { <<>>, <<".">>, <<"..">>, <<"a">>, <<".", Sep, "a">>, <<"..", Sep, "b">>,
    <<"a", Sep, "b">>, <<Sep>>, <<Sep, "a">>, <<Sep, Sep, "a">>, <<BadUnit>> }

AllTokens == SeqsUpTo(Units, MaxLen)

Cwds == { <<Sep>>, <<Sep, "tmp">>, <<Sep, "home", Sep, "user">> }

ArgLists ==
  {<<p>> \o s : p \in ProgTokens, s \in SeqsUpTo(SampleTokens, MaxArgs)}
    \cup {<<p, t>> : p \in ProgTokens, t \in AllTokens}

argc == Len(argv)

\* argv[k] of the C program (argv is 0-based there)
Arg(k) == argv[k + 1]

\* ------------------------------------------------------------------ program
Init ==
  /\ argv \in ArgLists
  /\ cwd \in Cwds
  /\ cwdOk \in BOOLEAN
  /\ pc = "start"
  /\ i = 0
  /\ out = <<>>
  /\ calls = <<>>
  /\ exitCode = "none"

\* mutant: argv[0] is resolved like the other arguments before it is printed
PrintArgv0Resolved ==
  /\ pc = "start"
  /\ out' = Append(out, string(absolute(path(Arg(0)), cwd)))
  /\ i' = 1
  /\ pc' = "loop"
  /\ UNCHANGED <<argv, cwd, cwdOk, calls, exitCode>>

\* mutant: the loop starts at index 0
PrintArgv0LoopFromZero ==
  /\ pc = "start"
  /\ out' = Append(out, Arg(0))
  /\ i' = 0
  /\ pc' = "loop"
  /\ UNCHANGED <<argv, cwd, cwdOk, calls, exitCode>>

\* line 7, and the loop's init-statement of line 8
PrintArgv0 ==
  /\ pc = "start"
  /\ out' = Append(out, Arg(0))
  /\ i' = 1
  /\ pc' = "loop"
  /\ UNCHANGED <<argv, cwd, cwdOk, calls, exitCode>>

\* mutant: an argument is resolved against the previous line, not against
\* the working directory
ResolveFromPrevious ==
  /\ pc = "loop"
  /\ i < argc
  /\ ~ResolveThrows(Arg(i), cwdOk)
  /\ calls' = Append(calls, i)
  /\ out' = Append(out, string(absolute(path(Arg(i)),
                                 IF i = 1 THEN cwd ELSE out[Len(out)])))
  /\ i' = i + 1
  /\ UNCHANGED <<argv, cwd, cwdOk, pc, exitCode>>

\* lines 8-10: one iteration whose fs::absolute returns
Resolve ==
  /\ pc = "loop"
  /\ i < argc
  /\ ~ResolveThrows(Arg(i), cwdOk)
  /\ calls' = Append(calls, i)
  /\ out' = Append(out, string(absolute(path(Arg(i)), cwd)))
  /\ i' = i + 1
  /\ UNCHANGED <<argv, cwd, cwdOk, pc, exitCode>>

\* mutant: the exception is caught and main returns 0
ThrowSwallowed ==
  /\ pc = "loop"
  /\ i < argc
  /\ ResolveThrows(Arg(i), cwdOk)
  /\ calls' = Append(calls, i)
  /\ pc' = "done"
  /\ exitCode' = 0
  /\ UNCHANGED <<argv, cwd, cwdOk, i, out>>

\* mutant: the exception is caught and the loop goes on with the next argument
ThrowSkips ==
  /\ pc = "loop"
  /\ i < argc
  /\ ResolveThrows(Arg(i), cwdOk)
  /\ calls' = Append(calls, i)
  /\ i' = i + 1
  /\ UNCHANGED <<argv, cwd, cwdOk, pc, out, exitCode>>

\* lines 8-9: fs::absolute throws, nothing catches: std::terminate, abort
Throw ==
  /\ pc = "loop"
  /\ i < argc
  /\ ResolveThrows(Arg(i), cwdOk)
  /\ calls' = Append(calls, i)
  /\ pc' = "terminated"
  /\ exitCode' = 134
  /\ UNCHANGED <<argv, cwd, cwdOk, i, out>>

\* line 8 (i < argc is false) and line 12
Return ==
  /\ pc = "loop"
  /\ ~(i < argc)
  /\ pc' = "done"
  /\ exitCode' = 0
  /\ UNCHANGED <<argv, cwd, cwdOk, i, out, calls>>

\* the environment: the working directory is removed while the program runs
RemoveCwd ==
  /\ pc \in {"start", "loop"}
  /\ cwdOk
  /\ cwdOk' = FALSE
  /\ UNCHANGED <<argv, cwd, pc, i, out, calls, exitCode>>

main == PrintArgv0 \/ Resolve \/ Throw \/ Return

Next == PrintArgv0 \/ Resolve \/ Throw \/ Return \/ RemoveCwd

Spec == Init /\ [][Next]_vars

\* the process is scheduled until it exits
FairSpec == Spec /\ WF_vars(main)

\* ------------------------------------------------------------ claim helpers
\* the C indices of the arguments whose line has been written
Printed == 1..(Len(out) - 1)

\* the line written for argv[k]
Line(k) == out[k + 1]

\* a call of fs::absolute that produced no line
Failed == calls # <<>> /\ Len(calls) >= Len(out)

Exited == pc \in {"done", "terminated"}

\* t written after the working directory c, one separator between them
OntoCwd(c, t) ==
  IF t = <<>> THEN c
  ELSE IF c = <<Sep>> THEN c \o t
  ELSE c \o <<Sep>> \o t

\* no "." or ".." name, no doubled separator after the root name, no
\* trailing separator except the root directory itself
Normalized(p) ==
  /\ \A k \in 1..Len(p) : p[k] \notin {".", ".."}
  /\ \A k \in (Len(RootName(p)) + 1)..(Len(p) - 1) :
        ~(p[k] = Sep /\ p[k + 1] = Sep)
  /\ (Len(p) > Len(RootName(p)) + 1 => p[Len(p)] # Sep)

\* C1: a run that returns has written exactly argc lines: argv[0] verbatim,
\* then for each argv[k], in order, its absolute path.
C1_OutputLines ==
  pc = "done" =>
    /\ Len(out) = argc
    /\ out[1] = Arg(0)
    /\ \A k \in 1..(argc - 1) :
          /\ Line(k) = absolute(Arg(k), cwd)
          /\ IsAbsolute(Line(k))

C1_Witness == pc = "done" /\ argc >= 3 /\ Arg(1) # Arg(2)

C1_WitnessNoArgs == pc = "done" /\ argc = 1 /\ out = <<Arg(0)>>

\* C2: the process exits with 0 exactly when every argument was resolved;
\* after a failed resolution it exits non-zero and never returns 0.
C2_ExitCode ==
  /\ Exited => (exitCode = 0 <=> (~Failed /\ Len(out) = argc))
  /\ Failed => pc = "terminated" /\ exitCode # 0

C2_Witness == pc = "terminated" /\ Failed /\ Len(out) >= 2

\* C3: the line printed for an argument that is an absolute, normalized path
\* is the argument itself, whatever the working directory.
C3_AbsoluteUnchanged ==
  \A k \in Printed :
    IsAbsolute(Arg(k)) /\ Normalized(Arg(k)) => Line(k) = Arg(k)

C3_Witness ==
  \E k \in Printed :
    /\ IsAbsolute(Arg(k)) /\ Normalized(Arg(k))
    /\ Len(Arg(k)) >= 2
    /\ cwd # <<Sep>>
    /\ ~IsPrefix(cwd, Arg(k))

\* C4 as stated: the line printed for every relative argument (one that is
\* not is_absolute()) is the argument joined onto the working directory and
\* starts with the working directory.
C4_Original ==
  \A k \in Printed :
    ~IsAbsolute(Arg(k)) =>
      /\ Line(k) = OntoCwd(cwd, Arg(k))
      /\ IsPrefix(cwd, Line(k))

\* C4 amended: the line printed for every argument that has neither a root
\* name nor a root directory (it does not begin with a separator) is the
\* argument joined onto the working directory and starts with the working
\* directory; a bare root name ("//", "//a") is printed as the root name
\* followed by the working directory.
C4_RelativeOntoCwd ==
  \A k \in Printed :
    /\ (RootName(Arg(k)) = <<>> /\ RootDirectory(Arg(k)) = <<>>) =>
          /\ Line(k) = OntoCwd(cwd, Arg(k))
          /\ IsPrefix(cwd, Line(k))
    /\ (RootName(Arg(k)) # <<>> /\ RootDirectory(Arg(k)) = <<>>) =>
          Line(k) = RootName(Arg(k)) \o cwd

C4_Witness ==
  \E k \in Printed :
    /\ Arg(k) = <<"a", Sep, "b">>
    /\ cwd = <<Sep, "tmp">>
    /\ Line(k) = <<Sep, "tmp", Sep, "a", Sep, "b">>

\* C5 as stated: "." is printed as exactly the working directory and "./a"
\* as the working directory followed by "/a".
C5_Original ==
  \A k \in Printed :
    /\ Arg(k) = <<".">> => Line(k) = cwd
    /\ Arg(k) = <<".", Sep, "a">> => Line(k) = OntoCwd(cwd, <<"a">>)

\* C5 amended: a "." segment is kept: "." is printed as the working
\* directory followed by "/." and "./a" as the working directory followed
\* by "/./a".
C5_DotKept ==
  \A k \in Printed :
    /\ Arg(k) = <<".">> => Line(k) = OntoCwd(cwd, <<".">>)
    /\ Arg(k) = <<".", Sep, "a">> => Line(k) = OntoCwd(cwd, <<".", Sep, "a">>)

C5_Witness ==
  /\ cwd = <<Sep, "tmp">>
  /\ \E j \in Printed, k \in Printed :
        /\ Arg(j) = <<".">> /\ Line(j) = <<Sep, "tmp", Sep, ".">>
        /\ Arg(k) = <<".", Sep, "a">>
        /\ Line(k) = <<Sep, "tmp", Sep, ".", Sep, "a">>

\* C6: resolving a printed line again, in the same working directory, gives
\* the line back.
C6_Idempotent ==
  \A k \in Printed : string(absolute(path(Line(k)), cwd)) = Line(k)

C6_Witness ==
  \E k \in Printed : ~IsAbsolute(Arg(k)) /\ Line(k) # Arg(k) /\ cwd # <<Sep>>

C10_Original ==
  Exited => calls = [j \in 1..(argc - 1) |-> j] /\ Len(out) = argc

\* C10 amended: every run ends after a single pass: the index starts at 1,
\* moves up by one per iteration and stays within 1..argc; the arguments are
\* passed to the resolver in index order, none skipped, none repeated, never
\* argv[0]; a run that returns has resolved and printed each of
\* argv[1..argc-1] exactly once.
C10_SinglePass ==
  /\ [](pc # "start" =>
          /\ i \in 1..argc
          /\ calls = [j \in 1..Len(calls) |-> j]
          /\ Len(calls) \in {i - 1, i}
          /\ Len(out) = i)
  /\ [](pc = "done" => calls = [j \in 1..(argc - 1) |-> j] /\ Len(out) = argc)
  /\ [][i' = i + 1 \/ (i' = i /\ out' = out)]_vars
  /\ <>Exited

C10_Witness == pc = "done" /\ Len(calls) = 2 /\ i = argc
====
